---- MODULE Spec2Model ----
(***************************************************************************)
(* A model of script.py: the tool that walks a directory, finds the front  *)
(* matter at the head of each .md/.html/.markdown file, deletes the keys   *)
(* `tags` and `categories` from it and rewrites the file.                  *)
(*                                                                         *)
(* Text is modelled character by character: a string is a sequence of      *)
(* one-character strings.  What is on disk is the file's characters before *)
(* Python's text layer (so it may hold "\r\n"); what the program sees is   *)
(* the result of reading in text mode.                                     *)
(***************************************************************************)
EXTENDS Naturals, Sequences, FiniteSets

(***************************************************************************)
(* Bounds of the model.                                                    *)
(***************************************************************************)
\* The largest number of entries rglob yields in a modelled directory.
MaxFiles == 2
\* The largest number of lines of the generated single-file contents.
MaxLines == 4

(***************************************************************************)
(* Characters and text helpers.                                            *)
(***************************************************************************)
LF == <<"\n">>
CRLF == <<"\r", "\n">>
\* In(x) for the value x of an expression: the expression is evaluated once,
\* as a local variable assigned once is
Let(value, In(_)) == CHOOSE result \in {In(x) : x \in {value}} : TRUE

None == << >>
Some(x) == <<x>>

\* s[from..] (the empty text when from is past the end)
Drop(s, from) == SubSeq(s, from, Len(s))

\* does text p occur in s at position at
HasAt(s, at, p) ==
    /\ at >= 1
    /\ at + Len(p) - 1 <= Len(s)
    /\ SubSeq(s, at, at + Len(p) - 1) = p

StartsWith(s, p) == HasAt(s, 1, p)

SetMin(S) == CHOOSE x \in S : \A y \in S : x <= y

RECURSIVE Concat(_)
\* the concatenation of a sequence of texts
Concat(ss) == IF ss = << >> THEN << >> ELSE Head(ss) \o Concat(Tail(ss))

RECURSIVE JoinLines(_, _)
\* sep.join(lines)
JoinLines(lines, sep) ==
    IF lines = << >> THEN << >>
    ELSE IF Len(lines) = 1 THEN lines[1]
    ELSE lines[1] \o sep \o JoinLines(Tail(lines), sep)

RECURSIVE SplitLines(_)
\* s.split("\n")
SplitLines(s) ==
    Let({k \in 1..Len(s) : s[k] = "\n"}, LAMBDA brk :
        IF brk = {} THEN <<s>>
        ELSE Let(SetMin(brk), LAMBDA k :
             Let(Drop(s, k + 1), LAMBDA rest :
                 <<SubSeq(s, 1, k - 1)>> \o SplitLines(rest))))

IsSpace(ch) == ch \in {" ", "\n", "\r", "\t"}

\* str.strip(): leading and trailing whitespace removed
Strip(s) ==
    Let({k \in 1..Len(s) : ~IsSpace(s[k])}, LAMBDA keep :
        IF keep = {} THEN << >>
        ELSE SubSeq(s, SetMin(keep), CHOOSE k \in keep : \A j \in keep : j <= k))

(***************************************************************************)
(* extract_frontmatter (script.py 8-27).                                   *)
(***************************************************************************)
DASHES == <<"-", "-", "-">>
PLUSES == <<"+", "+", "+">>

\* The length of `\r?\n` followed by the token d at position at, 0 if the
\* content does not continue that way.
BreakThen(content, at, d) ==
    IF HasAt(content, at, CRLF \o d) THEN 2 + Len(d)
    ELSE IF HasAt(content, at, LF \o d) THEN 1 + Len(d)
    ELSE 0

\* The opening of the pattern, `^(TOKEN)\r?\n` for TOKEN one of `tokens`: the
\* tokens the content opens with (at most one).
Opened(content, tokens) ==
    {d \in tokens : /\ StartsWith(content, d)
                    /\ (HasAt(content, Len(d) + 1, LF) \/ HasAt(content, Len(d) + 1, CRLF))}

\* where the lazy group starts, after the opening line
GroupStart(content, d) ==
    IF HasAt(content, Len(d) + 1, CRLF) THEN Len(d) + 3 ELSE Len(d) + 2

\* the match whose lazy group ends before position e
MatchEnding(content, d, start, e) ==
    Some([delimiter |-> d,
          front_matter |-> SubSeq(content, start, e - 1),
          end |-> e + BreakThen(content, e, d) - 1])

\* the lazy group `(.*?)` followed by `\r?\n\1`: it ends at the first
\* position at which a line break and the opening token follow
MatchLazy(content, d, start, closes) ==
    IF closes = {} THEN None ELSE MatchEnding(content, d, start, SetMin(closes))

MatchFrom(content, d, start) ==
    Let({e \in start..Len(content) : BreakThen(content, e, d) > 0},
        LAMBDA closes : MatchLazy(content, d, start, closes))

MatchOpened(content, opened) ==
    IF opened = {} THEN None
    ELSE MatchFrom(content, CHOOSE d \in opened : TRUE,
                   GroupStart(content, CHOOSE d \in opened : TRUE))

\* re.compile(r'^(TOKEN)\r?\n(.*?)\r?\n\1', DOTALL | MULTILINE).match(content)
\* for TOKEN one of `tokens`: None, or the match as
\* [delimiter (group 1), front_matter (the lazy group), end (match.end())].
\* match() anchors at position 0.
PatternMatch(content, tokens) ==
    Let(Opened(content, tokens), LAMBDA opened : MatchOpened(content, opened))

\* (a variant of yaml_pattern that opens with --- only)
yaml_pattern_dashes_only(content) == PatternMatch(content, {DASHES})

yaml_pattern(content) == PatternMatch(content, {DASHES, PLUSES})
toml_pattern(content) == PatternMatch(content, {PLUSES})

\* script.py 18-27: the tuple returned for the two matches
Extracted(content, yaml_match, toml_match) ==
    IF yaml_match # None
    THEN [front_matter |-> Some(yaml_match[1].front_matter),
          rest_content |-> Drop(content, yaml_match[1].end + 1),
          delimiter |-> Some(yaml_match[1].delimiter),
          fm_type |-> "yaml"]
    ELSE IF toml_match # None
    THEN [front_matter |-> Some(toml_match[1].front_matter),
          rest_content |-> Drop(content, toml_match[1].end + 1),
          delimiter |-> Some(PLUSES),
          fm_type |-> "toml"]
    ELSE [front_matter |-> None, rest_content |-> content,
          delimiter |-> None, fm_type |-> "None"]

extract_frontmatter(content) ==
    Let(yaml_pattern(content), LAMBDA yaml_match :
    Let(toml_pattern(content), LAMBDA toml_match :
        Extracted(content, yaml_match, toml_match)))

(***************************************************************************)
(* Python's text layer: open(path, 'r') and open(path, 'w') with the       *)
(* default newline handling (script.py 36-37 and 76-77).                   *)
(***************************************************************************)
RECURSIVE ReadText(_)
\* file.read() in text mode: "\r\n" and a lone "\r" both arrive as "\n"
ReadText(bytes) ==
    IF bytes = << >> THEN << >>
    ELSE IF HasAt(bytes, 1, CRLF) THEN LF \o ReadText(Drop(bytes, 3))
    ELSE IF Head(bytes) = "\r" THEN LF \o ReadText(Tail(bytes))
    ELSE <<Head(bytes)>> \o ReadText(Tail(bytes))

RECURSIVE WriteText(_, _)
\* file.write() in text mode: every "\n" leaves as os.linesep
WriteText(text, linesep) ==
    IF text = << >> THEN << >>
    ELSE IF Head(text) = "\n" THEN linesep \o WriteText(Tail(text), linesep)
    ELSE <<Head(text)>> \o WriteText(Tail(text), linesep)

(***************************************************************************)
(* The YAML codec, yaml.safe_load (script.py 47) and yaml.dump with        *)
(* allow_unicode=True, sort_keys=False (script.py 68), on the block syntax *)
(* the modelled files use: one construct per line, at column 0.            *)
(*   key: word     an entry of a block mapping; the key plain or 'quoted'  *)
(*   - word        an item of a block sequence                             *)
(*   ---           a document start marker                                 *)
(*   {}            the empty flow mapping                                  *)
(*   any other run of plain characters: (a line of) a plain scalar         *)
(* A loaded value is [kind, items]: kind "dict" with the ordered           *)
(* <<key, value>> pairs of the dict, kind "other" for None, a list or a    *)
(* str, kind "error" for a raised YAMLError / TomlDecodeError.             *)
(***************************************************************************)
Letters == {"a", "c", "d", "e", "g", "i", "k", "o", "r", "s", "t", "y", "B"}
WordChars == Letters \cup {"+", "-"}
TextChars == WordChars \cup {" ", "=", "\""}

Quote == <<"'">>
ColonSpace == <<":", " ">>
DashSpace == <<"-", " ">>
FlowEmpty == <<"{", "}">>

\* The plain words over Letters that the resolver reads as a bool, not a str.
Reserved == { <<"y", "e", "s">> }

\* a run of word characters that is one plain scalar of type str
IsPlainWord(w) ==
    /\ w # << >>
    /\ \A k \in 1..Len(w) : w[k] \in WordChars
    /\ w # <<"-">>
    /\ w # DASHES
    /\ w \notin Reserved

\* a line that is (part of) a plain scalar and nothing else
IsPlainText(l) ==
    /\ l # << >>
    /\ \A k \in 1..Len(l) : l[k] \in TextChars
    /\ l[1] \in WordChars /\ l[Len(l)] # " "
    /\ ~(l[1] = "-" /\ (Len(l) = 1 \/ l[2] = " "))
    /\ l # DASHES
    /\ l \notin Reserved

\* the position of the first ": " of the line, 0 if there is none
ColonAt(l) ==
    Let({k \in 1..Len(l) : HasAt(l, k, ColonSpace)},
        LAMBDA at : IF at = {} THEN 0 ELSE SetMin(at))

\* the scalar a key token denotes: None if the token is no modelled key
KeyOf(tok) ==
    IF IsPlainWord(tok) THEN Some(tok)
    ELSE IF /\ Len(tok) >= 3 /\ tok[1] = "'" /\ tok[Len(tok)] = "'"
            /\ \A k \in 2..(Len(tok) - 1) : tok[k] \in WordChars
         THEN Some(SubSeq(tok, 2, Len(tok) - 1))
         ELSE None

IsEntryAt(l, at) ==
    /\ at > 1
    /\ KeyOf(SubSeq(l, 1, at - 1)) # None
    /\ IsPlainWord(Drop(l, at + 2))

IsEntry(l) == Let(ColonAt(l), LAMBDA at : IsEntryAt(l, at))

EntryAt(l, at) == <<KeyOf(SubSeq(l, 1, at - 1))[1], Drop(l, at + 2)>>

EntryOf(l) == Let(ColonAt(l), LAMBDA at : EntryAt(l, at))

IsItem(l) == HasAt(l, 1, DashSpace) /\ IsPlainWord(Drop(l, 3))

\* the class of a line of a block
LineClass(l) ==
    IF l = << >> THEN "blank"
    ELSE IF l = DASHES THEN "docstart"
    ELSE IF l = FlowEmpty THEN "flowempty"
    ELSE IF IsEntry(l) THEN "entry"
    ELSE IF IsItem(l) THEN "item"
    ELSE IF IsPlainText(l) THEN "text"
    ELSE "unmodelled"

\* the syntax the codec model covers
YamlModelled(block) ==
    SelectSeq(SplitLines(block), LAMBDA l : LineClass(l) = "unmodelled") = << >>

RECURSIVE DictSet(_, _, _)
\* d[key] = value on an insertion-ordered dict
DictSet(items, key, value) ==
    IF items = << >> THEN << <<key, value>> >>
    ELSE IF Head(items)[1] = key THEN << <<key, value>> >> \o Tail(items)
    ELSE <<Head(items)>> \o DictSet(Tail(items), key, value)

RECURSIVE DictOf(_)
\* the dict built by assigning the pairs in order (a repeated key keeps its
\* first position and takes its last value)
DictOf(pairs) ==
    IF pairs = << >> THEN << >>
    ELSE Let(DictOf(SubSeq(pairs, 1, Len(pairs) - 1)), LAMBDA items :
             DictSet(items, pairs[Len(pairs)][1], pairs[Len(pairs)][2]))

DictKeys(items) == {items[k][1] : k \in 1..Len(items)}

\* del d[key]
DictDel(items, key) == SelectSeq(items, LAMBDA kv : kv[1] # key)

Loaded(kind, items) == [kind |-> kind, items |-> items]

\* the value of a document whose lines are `body`
LoadDocument(body) ==
    IF body = << >> THEN Loaded("other", << >>)
    ELSE IF \A k \in 1..Len(body) : LineClass(body[k]) = "entry"
         THEN Let([k \in 1..Len(body) |-> EntryOf(body[k])],
                  LAMBDA pairs : Loaded("dict", DictOf(pairs)))
    ELSE IF body = <<FlowEmpty>> THEN Loaded("dict", << >>)
    ELSE IF \A k \in 1..Len(body) : LineClass(body[k]) = "item"
         THEN Loaded("other", << >>)
    \* a plain scalar runs over the following lines until a ": "
    ELSE IF /\ LineClass(body[1]) = "text"
            /\ \A k \in 1..Len(body) :
                   LineClass(body[k]) \in {"text", "item", "flowempty"}
         THEN Loaded("other", << >>)
    ELSE Loaded("error", << >>)

\* a leading `---` opens the one document; any later one opens a second,
\* which safe_load refuses
DocumentLines(lines) ==
    IF lines # << >> /\ lines[1] = DASHES THEN Tail(lines) ELSE lines

\* the lines of the text that hold something
LoadBody(front_matter) ==
    DocumentLines(SelectSeq(SplitLines(front_matter), LAMBDA l : l # << >>))

\* yaml.safe_load(front_matter)
yaml_safe_load(front_matter) ==
    Let(LoadBody(front_matter), LAMBDA body : LoadDocument(body))

\* how the emitter writes a str scalar: plain when that reads back as the
\* same str, single-quoted otherwise
EmitScalar(w) ==
    IF IsPlainWord(w) /\ ~StartsWith(w, DASHES) THEN w ELSE Quote \o w \o Quote

\* yaml.dump(data, allow_unicode=True, sort_keys=False)
yaml_dump(items) ==
    IF items = << >> THEN FlowEmpty \o LF
    ELSE Concat([k \in 1..Len(items) |->
                    EmitScalar(items[k][1]) \o ColonSpace \o EmitScalar(items[k][2]) \o LF])

(***************************************************************************)
(* The TOML codec, toml.loads (script.py 49) and toml.dumps (script.py 70),*)
(* on lines of the form  key = "word".                                     *)
(***************************************************************************)
Assign == <<" ", "=", " ", "\"">>

AssignAt(l) ==
    Let({k \in 1..Len(l) : HasAt(l, k, Assign)},
        LAMBDA at : IF at = {} THEN 0 ELSE SetMin(at))

IsBareKey(w) == w # << >> /\ \A k \in 1..Len(w) : w[k] \in Letters \cup {"-"}

IsAssignmentAt(l, at) ==
    /\ at > 1
    /\ IsBareKey(SubSeq(l, 1, at - 1))
    /\ Len(l) > at + 3
    /\ l[Len(l)] = "\""
    /\ \A k \in (at + 4)..(Len(l) - 1) : l[k] \in WordChars

IsAssignment(l) == Let(AssignAt(l), LAMBDA at : IsAssignmentAt(l, at))

AssignmentAt(l, at) == <<SubSeq(l, 1, at - 1), SubSeq(l, at + 4, Len(l) - 1)>>

AssignmentOf(l) == Let(AssignAt(l), LAMBDA at : AssignmentAt(l, at))

TomlLines(body) ==
    IF \E k \in 1..Len(body) : ~IsAssignment(body[k]) THEN Loaded("error", << >>)
    ELSE IF Cardinality({AssignmentOf(body[k])[1] : k \in 1..Len(body)}) # Len(body)
         THEN Loaded("error", << >>)
    ELSE Loaded("dict", [k \in 1..Len(body) |-> AssignmentOf(body[k])])

TomlBody(front_matter) ==
    SelectSeq(SplitLines(front_matter), LAMBDA l : l # << >>)

\* toml.loads(front_matter)
toml_loads(front_matter) ==
    Let(TomlBody(front_matter), LAMBDA body : TomlLines(body))

\* toml.dumps(data)
toml_dumps(items) ==
    Concat([k \in 1..Len(items) |-> items[k][1] \o Assign \o items[k][2] \o <<"\"">> \o LF])

(***************************************************************************)
(* The files the model runs on.                                            *)
(***************************************************************************)
L_open == DASHES
L_plus == PLUSES
L_dash4 == <<"-", "-", "-", "-">>
L_tags == <<"t", "a", "g", "s", ":", " ", "a">>
L_categories == <<"c", "a", "t", "e", "g", "o", "r", "i", "e", "s", ":", " ", "a">>
L_title == <<"t", ":", " ", "a">>
L_pluskey == <<"'", "+", "+", "+", "k", "'", ":", " ", "a">>
L_item == <<"-", " ", "a">>
L_body == <<"B", "o", "d", "y">>
L_toml == <<"t", "a", "g", "s", " ", "=", " ", "\"", "a", "\"">>
L_empty == << >>

\* The lines generated contents are made of.
Vocabulary == {L_open, L_plus, L_dash4, L_tags, L_title, L_body, L_empty}

\* Every text of at most MaxLines lines of the vocabulary, joined by "\n"
\* (a last empty line gives the text its final newline).
GeneratedContents ==
    {JoinLines(ls, LF) : ls \in UNION {[1..n -> Vocabulary] : n \in 0..MaxLines}}

\* Sample documents, as lines: the spec's scenarios and the shapes
\* clean_frontmatter tells apart.
SampleDocuments ==
    { <<L_open, L_title, L_tags, L_open, L_body, L_empty>>,
      <<L_open, L_tags, L_categories, L_open, L_body>>,
      <<L_open, L_title, L_body, L_open, L_empty>>,
      <<L_open, L_item, L_item, L_open, L_body>>,
      <<L_body, L_empty>>,
      <<L_plus, L_tags, L_title, L_pluskey, L_plus, L_body, L_empty>>,
      <<L_plus, L_toml, L_plus, L_body, L_empty>> }

TaggedDocument == <<L_open, L_title, L_tags, L_open, L_body, L_empty>>
ShortDocument == <<L_open, L_tags, L_open>>

Entry(is_file, suffix, readable, writable, bytes) ==
    [is_file |-> is_file, suffix |-> suffix, readable |-> readable,
     writable |-> writable, bytes |-> bytes]

\* The entries a modelled directory is made of.  readable: whether opening
\* and decoding the file succeeds; writable: "yes", or how overwriting it
\* fails ("open_fails": open(path, 'w') raises and the file is untouched;
\* "write_fails": the file is truncated by open and the write then raises).
DirectoryEntries ==
    {Entry(TRUE, ".md", TRUE, "yes", JoinLines(d, LF)) : d \in SampleDocuments}
    \cup {Entry(TRUE, ".md", TRUE, "yes", JoinLines(TaggedDocument, CRLF))}
    \cup {Entry(TRUE, sfx, TRUE, "yes", JoinLines(TaggedDocument, LF)) :
             sfx \in {".html", ".markdown", ".MD"}}
    \cup {Entry(TRUE, ".md", FALSE, "yes", JoinLines(TaggedDocument, LF))}
    \cup {Entry(TRUE, ".md", TRUE, w, JoinLines(ShortDocument, LF)) :
             w \in {"open_fails", "write_fails"}}
    \cup {Entry(FALSE, ".md", TRUE, "yes", << >>)}

(***************************************************************************)
(* The state.                                                              *)
(***************************************************************************)
VARIABLES
    argc,            \* len(sys.argv)
    is_dir,          \* os.path.isdir(directory)
    tree,            \* the entries under the directory, in rglob's order, as
                     \* they were before the first run
    linesep,         \* os.linesep of the platform
    disk,            \* disk[p]: what file p holds now
    pc,              \* where the program is
    i,               \* the entry the loop of clean_frontmatter is at
    modified_count,
    out,             \* what has been printed, a line per element
    run,             \* 1: the first run of the tool, 2: a second run after it
    disk1,           \* history: disk when the first run ended
    count1,          \* history: the count the first run returned
    visited,         \* history: the entries the loop has taken up in this run
    last             \* the last file the loop body read, with what it computed
                     \* from it; None before the first

vars == <<argc, is_dir, tree, linesep, disk, pc, i, modified_count, out, run,
          disk1, count1, visited, last>>

Paths == 1..Len(tree)

(***************************************************************************)
(* clean_frontmatter's loop body (script.py 34-86) on one path, as the     *)
(* values it computes.                                                     *)
(***************************************************************************)
Suffixes == {".md", ".html", ".markdown"}

\* (a variant of Eligible that compares the suffix without regard to case)
Eligible_any_case(p) == tree[p].is_file /\ tree[p].suffix \in Suffixes \cup {".MD"}

\* script.py 34
Eligible(p) == tree[p].is_file /\ tree[p].suffix \in Suffixes

\* script.py 36-37
Content(p) == ReadText(disk[p])

\* script.py 46-49
Decode(fm) ==
    IF fm.fm_type = "yaml" THEN yaml_safe_load(fm.front_matter[1])
    ELSE toml_loads(fm.front_matter[1])

\* (a variant of Cleaned that deletes `tags` only)
Cleaned_keeps_categories(items) == DictDel(items, <<"t", "a", "g", "s">>)

\* script.py 56-61: data after the two deletions
Cleaned(items) == DictDel(DictDel(items, <<"t", "a", "g", "s">>),
                          <<"c", "a", "t", "e", "g", "o", "r", "i", "e", "s">>)

\* (a variant of Modified that is set whatever the keys)
Modified_always(items) == TRUE

\* script.py 55-61: the flag `modified`
Modified(items) ==
    \/ <<"t", "a", "g", "s">> \in DictKeys(items)
    \/ <<"c", "a", "t", "e", "g", "o", "r", "i", "e", "s">> \in DictKeys(items)

\* script.py 67-70
Encode(fm, items) ==
    IF fm.fm_type = "yaml" THEN yaml_dump(items) ELSE toml_dumps(items)

\* script.py 73
NewContent(fm, new_front_matter) ==
    fm.delimiter[1] \o LF \o Strip(new_front_matter) \o LF \o fm.delimiter[1]
        \o fm.rest_content

\* script.py 51-77 for the decoded data: where the loop body stops and,
\* when it gets as far as writing, the text it writes
Decoded(fm, data) ==
    IF data.kind = "error" THEN [at |-> "parse_error", text |-> << >>]
    ELSE IF data.kind # "dict" THEN [at |-> "not_a_dict", text |-> << >>]
    ELSE IF ~Modified(data.items) THEN [at |-> "not_modified", text |-> << >>]
    ELSE [at |-> "write",
          text |-> Let(Cleaned(data.items), LAMBDA cleaned :
                   Let(Encode(fm, cleaned), LAMBDA new_front_matter :
                   NewContent(fm, new_front_matter)))]

\* script.py 41-77 for the extracted front matter
OutcomeOf(fm) ==
    IF fm.front_matter = None THEN [at |-> "no_front_matter", text |-> << >>]
    ELSE Let(Decode(fm), LAMBDA data : Decoded(fm, data))

\* What the loop body has in hand for path p once it has read it:
\* the bytes it read, the text they gave, the tuple extract_frontmatter
\* returned, where the body stopped (at) and the text it writes, if any.
Looked(p, content, fm, outcome) ==
    [path |-> p, bytes |-> disk[p], content |-> content, fm |-> fm,
     at |-> outcome.at, text |-> outcome.text]

(***************************************************************************)
(* Initial states.                                                         *)
(***************************************************************************)
Start(t, sep, n_args, dir_ok) ==
    /\ tree = t
    /\ disk = [p \in 1..Len(t) |-> t[p].bytes]
    /\ linesep = sep
    /\ argc = n_args
    /\ is_dir = dir_ok
    /\ pc = "main"
    /\ i = 0
    /\ modified_count = 0
    /\ out = << >>
    /\ run = 1
    /\ disk1 = << >>
    /\ count1 = 0
    /\ visited = << >>
    /\ last = None

\* A directory of up to MaxFiles entries.  rglob's order is the order of the
\* sequence; every arrangement of the entries is an initial state.
InitDirectory ==
    \E n \in 0..MaxFiles : \E t \in [1..n -> DirectoryEntries] :
        Start(t, LF, 2, TRUE)

\* A directory of one entry on a platform whose os.linesep is "\r\n".
InitWindows ==
    \E e \in DirectoryEntries : Start(<<e>>, CRLF, 2, TRUE)

\* A directory holding one generated file.
InitFile ==
    \E bytes \in GeneratedContents :
        Start(<<Entry(TRUE, ".md", TRUE, "yes", bytes)>>, LF, 2, TRUE)

\* An invocation main() refuses: a wrong number of arguments, or an argument
\* that is no directory.
InitRefused ==
    \/ \E n_args \in {1, 3} : Start(<< >>, LF, n_args, FALSE)
    \/ Start(<< >>, LF, 2, FALSE)

Init == InitDirectory \/ InitWindows \/ InitFile \/ InitRefused

(***************************************************************************)
(* main (script.py 90-102).                                                *)
(***************************************************************************)
Loop == <<disk, modified_count, visited, last>>
Fixed == <<argc, is_dir, tree, linesep, run, disk1, count1>>

\* script.py 91-93
MainUsage ==
    /\ pc = "main" /\ argc # 2
    /\ out' = Append(out, <<"Usage">>)
    /\ pc' = "exit1"
    /\ UNCHANGED <<i, Loop, Fixed>>

\* script.py 95-98
MainNotADirectory ==
    /\ pc = "main" /\ argc = 2 /\ ~is_dir
    /\ out' = Append(out, <<"NotADirectory">>)
    /\ pc' = "exit1"
    /\ UNCHANGED <<i, Loop, Fixed>>

\* script.py 100-101 and 31: the start message, then clean_frontmatter begins
MainStart ==
    /\ pc = "main" /\ argc = 2 /\ is_dir
    /\ out' = Append(out, <<"Processing">>)
    /\ modified_count' = 0
    /\ i' = 1
    /\ visited' = << >>
    /\ pc' = "loop"
    /\ UNCHANGED <<disk, last, Fixed>>

(***************************************************************************)
(* clean_frontmatter (script.py 29-88): one action per way through the     *)
(* loop body; the way that writes is three steps (write, count, print).    *)
(***************************************************************************)
AtEntry == pc = "loop" /\ i \in Paths

\* the loop goes on to the next entry
Advance ==
    /\ i' = i + 1
    /\ visited' = Append(visited, i)
    /\ pc' = "loop"

\* script.py 34: not a file, or not one of the three suffixes
SkipEntry ==
    /\ AtEntry /\ ~Eligible(i)
    /\ Advance
    /\ UNCHANGED <<disk, modified_count, out, last, Fixed>>

\* (a variant of ReadFails in which the exception leaves clean_frontmatter)
ReadFails_escapes ==
    /\ pc = "loop" /\ i \in 1..Len(tree)
    /\ tree[i].is_file /\ tree[i].suffix \in Suffixes /\ ~tree[i].readable
    /\ pc' = "crashed"
    /\ UNCHANGED <<i, out, disk, modified_count, visited, last, argc, is_dir,
                   tree, linesep, run, disk1, count1>>

\* script.py 36-37 raise; 85-86 print and go on
ReadFails ==
    /\ AtEntry /\ Eligible(i) /\ ~tree[i].readable
    /\ out' = Append(out, <<"ErrorProcessing", i>>)
    /\ Advance
    /\ UNCHANGED <<disk, modified_count, last, Fixed>>

\* script.py 36-39 and what follows from them: the file is read, and the
\* values the rest of the loop body works on are computed
ReadFile ==
    /\ AtEntry /\ Eligible(i) /\ tree[i].readable
    /\ \E content \in {Content(i)} :
       \E fm \in {extract_frontmatter(content)} :
       \E outcome \in {OutcomeOf(fm)} :
           last' = Some(Looked(i, content, fm, outcome))
    /\ pc' = "read"
    /\ UNCHANGED <<i, disk, modified_count, out, visited, Fixed>>

\* the loop body has read the file and stops at `stop`
StopsAt(stop) == pc = "read" /\ last[1].at = stop

\* script.py 41-42
NoFrontMatter ==
    /\ StopsAt("no_front_matter")
    /\ Advance
    /\ UNCHANGED <<disk, modified_count, out, last, Fixed>>

\* script.py 47/49 raise; 82-83 print and go on
ParseError ==
    /\ StopsAt("parse_error")
    /\ out' = Append(out, <<"ErrorParsing", i>>)
    /\ Advance
    /\ UNCHANGED <<disk, modified_count, last, Fixed>>

\* script.py 51-52
NotADict ==
    /\ StopsAt("not_a_dict")
    /\ Advance
    /\ UNCHANGED <<disk, modified_count, out, last, Fixed>>

\* script.py 63-64
NothingToRemove ==
    /\ StopsAt("not_modified")
    /\ Advance
    /\ UNCHANGED <<disk, modified_count, out, last, Fixed>>

\* script.py 76 raises: the file is as it was; 85-86 print and go on
OpenForWriteFails ==
    /\ StopsAt("write") /\ tree[i].writable = "open_fails"
    /\ out' = Append(out, <<"ErrorProcessing", i>>)
    /\ Advance
    /\ UNCHANGED <<disk, modified_count, last, Fixed>>

\* the file is left holding a proper prefix of the bytes being written
Truncates(bytes) ==
    \E n \in 0..(Len(bytes) - 1) : disk' = [disk EXCEPT ![i] = SubSeq(bytes, 1, n)]

\* script.py 76 truncates the file, 77 (or the close) raises with only a
\* part of the text on disk; 85-86 print and go on
WriteFails ==
    /\ StopsAt("write") /\ tree[i].writable = "write_fails"
    /\ Truncates(WriteText(last[1].text, linesep))
    /\ out' = Append(out, <<"ErrorProcessing", i>>)
    /\ Advance
    /\ UNCHANGED <<modified_count, last, Fixed>>

\* script.py 76-77
WriteFile ==
    /\ StopsAt("write") /\ tree[i].writable = "yes"
    /\ disk' = [disk EXCEPT ![i] = WriteText(last[1].text, linesep)]
    /\ pc' = "written"
    /\ UNCHANGED <<i, modified_count, out, visited, last, Fixed>>

\* (a variant of CountModified that leaves the count as it is)
CountModified_forgets ==
    /\ pc = "written"
    /\ pc' = "counted"
    /\ UNCHANGED <<i, disk, modified_count, out, visited, last, argc, is_dir,
                   tree, linesep, run, disk1, count1>>

\* script.py 79
CountModified ==
    /\ pc = "written"
    /\ modified_count' = modified_count + 1
    /\ pc' = "counted"
    /\ UNCHANGED <<i, disk, out, visited, last, Fixed>>

\* script.py 80
PrintModified ==
    /\ pc = "counted"
    /\ out' = Append(out, <<"Modified", i>>)
    /\ Advance
    /\ UNCHANGED <<disk, modified_count, last, Fixed>>

\* script.py 88: the loop is over
ReturnCount ==
    /\ pc = "loop" /\ i = Len(tree) + 1
    /\ pc' = "returned"
    /\ UNCHANGED <<i, out, Loop, Fixed>>

\* script.py 102
MainCompleted ==
    /\ pc = "returned"
    /\ out' = Append(out, <<"Completed", modified_count>>)
    /\ pc' = "done"
    /\ UNCHANGED <<i, Loop, Fixed>>

\* The tool is run a second time on the same directory.
RunAgain ==
    /\ pc = "done" /\ run = 1
    /\ run' = 2
    /\ disk1' = disk
    /\ count1' = modified_count
    /\ pc' = "main"
    /\ i' = 0
    /\ modified_count' = 0
    /\ out' = << >>
    /\ visited' = << >>
    /\ last' = None
    /\ UNCHANGED <<argc, is_dir, tree, linesep, disk>>

Next ==
    \/ MainUsage
    \/ MainNotADirectory
    \/ MainStart
    \/ SkipEntry
    \/ ReadFails
    \/ ReadFile
    \/ NoFrontMatter
    \/ ParseError
    \/ NotADict
    \/ NothingToRemove
    \/ OpenForWriteFails
    \/ WriteFails
    \/ WriteFile
    \/ CountModified
    \/ PrintModified
    \/ ReturnCount
    \/ MainCompleted
    \/ RunAgain

Spec == Init /\ [][Next]_vars

\* The runs of the tool on a directory, which no step of it can block: the
\* program is sequential and waits on nothing, so it runs until it exits.
InitRuns == InitDirectory \/ InitWindows \/ InitRefused
FairSpec == InitRuns /\ [][Next]_vars /\ WF_vars(Next)

(***************************************************************************)
(* Vocabulary of the properties.                                           *)
(***************************************************************************)
TAGS == <<"t", "a", "g", "s">>
CATEGORIES == <<"c", "a", "t", "e", "g", "o", "r", "i", "e", "s">>

\* what file p held when the current run began
RunStart(p) == IF run = 1 THEN tree[p].bytes ELSE disk1[p]

\* the files whose content differs from what it was when the run began
ChangedFiles == {p \in Paths : disk[p] # RunStart(p)}

\* the printed lines of one kind
LinesOf(kind) == SelectSeq(out, LAMBDA line : line[1] = kind)

\* the paths of the printed `Modified: <path>` lines
ModifiedPaths == {LinesOf("Modified")[k][2] : k \in 1..Len(LinesOf("Modified"))}

\* some printed line names path p
Mentions(p) ==
    \E k \in 1..Len(out) :
        /\ out[k][1] \in {"Modified", "ErrorParsing", "ErrorProcessing"}
        /\ out[k][2] = p

\* Every block handed to the YAML codec is of the syntax its model covers.
CodecModelCoversInputs ==
    (last # None /\ last[1].fm.front_matter # None)
        => YamlModelled(last[1].fm.front_matter[1])

(***************************************************************************)
(* C1.  After a file whose front matter holds `tags` and/or `categories`   *)
(* is rewritten, the front matter decoded from the rewritten file is the   *)
(* original mapping without those two keys: every other key, with its      *)
(* value, in the original order, and nothing else.                         *)
(***************************************************************************)
OtherPairs(items) == SelectSeq(items, LAMBDA kv : kv[1] \notin {TAGS, CATEGORIES})

DecodesTo(fm, items) ==
    /\ fm.front_matter # None
    /\ Decode(fm) = Loaded("dict", items)

C1_RewriteKeepsOtherKeys ==
    pc = "written" =>
        DecodesTo(extract_frontmatter(ReadText(disk[i])),
                  OtherPairs(Decode(last[1].fm).items))

\* a `+++` file with the keys tags, t and '+++k' has been rewritten, and the
\* block found in the rewritten file is `t: a` alone
C1_Witness ==
    /\ pc = "written"
    /\ last[1].content
          = JoinLines(<<L_plus, L_tags, L_title, L_pluskey, L_plus, L_body, L_empty>>, LF)
    /\ extract_frontmatter(ReadText(disk[i])).front_matter = Some(L_title)

(***************************************************************************)
(* C2.  Idempotence: a second run over the directory the first run left    *)
(* returns a count of 0 and leaves every file as the first run left it.    *)
(***************************************************************************)
C2_SecondRunChangesNothing ==
    (run = 2 /\ pc \in {"returned", "done"}) => (modified_count = 0 /\ disk = disk1)

\* a second run has ended after a first run that rewrote a file
C2_Witness == run = 2 /\ pc = "done" /\ count1 > 0

(***************************************************************************)
(* C3.  When a run ends, the count it returns is the number of files whose *)
(* content on disk differs from what it was before the run, also when      *)
(* reads, decodes or writes failed.                                        *)
(***************************************************************************)
C3_CountIsChangedFiles ==
    pc \in {"returned", "done"} => modified_count = Cardinality(ChangedFiles)

\* a run has ended with a count of 0 and a file that is not what it was
C3_Witness == pc = "done" /\ modified_count = 0 /\ ChangedFiles # {}

(***************************************************************************)
(* C4.  A rewritten file holds: the opening delimiter, a newline, the      *)
(* trimmed re-encoded block, a newline, the delimiter, and then the bytes  *)
(* that followed the closing delimiter in the original file, unchanged.    *)
(***************************************************************************)
Rewritten(fm, raw, nl) ==
    /\ raw.front_matter # None
    /\ disk[i] = raw.delimiter[1] \o nl
                    \o Strip(Encode(fm, OtherPairs(Decode(fm).items)))
                    \o nl \o raw.delimiter[1] \o raw.rest_content

C4_RewriteKeepsBodyBytes ==
    pc = "written" =>
        \E nl \in {LF, CRLF} :
            Rewritten(last[1].fm, extract_frontmatter(last[1].bytes), nl)

\* a file with CRLF line endings has been rewritten where os.linesep is "\n",
\* and no "\r" is left in it
C4_Witness ==
    /\ pc = "written" /\ linesep = LF
    /\ \E k \in 1..Len(last[1].bytes) : last[1].bytes[k] = "\r"
    /\ \A k \in 1..Len(disk[i]) : disk[i][k] # "\r"

(***************************************************************************)
(* C5.  A file is written, or counted, or reported as modified, only if    *)
(* its content starts with a delimiter line, a block is found, the block   *)
(* decodes without error to a mapping, and the mapping holds `tags` or     *)
(* `categories`; any other file is byte for byte what it was.              *)
(***************************************************************************)
HasRemovableKey(data) ==
    /\ data.kind = "dict"
    /\ \E k \in 1..Len(data.items) : data.items[k][1] \in {TAGS, CATEGORIES}

Removable(content, fm) ==
    /\ \E d \in {DASHES, PLUSES} : StartsWith(content, d \o LF)
    /\ fm.front_matter # None
    /\ HasRemovableKey(Decode(fm))

RemovableAtStart(p) ==
    Removable(ReadText(RunStart(p)), extract_frontmatter(ReadText(RunStart(p))))

Touched(p) ==
    \/ disk[p] # RunStart(p)
    \/ p \in ModifiedPaths
    \/ (pc \in {"written", "counted"} /\ i = p)

C5_OnlyRemovableFilesAreWritten ==
    \A p \in Paths : Touched(p) => RemovableAtStart(p)

\* a run has ended that rewrote one file and left alone, uncounted, a file
\* whose block does not decode and a file with no front matter
C5_Witness ==
    /\ pc = "done" /\ modified_count = 1
    /\ \E p \in Paths : Touched(p)
    /\ last # None /\ last[1].at \in {"parse_error", "no_front_matter"}
    /\ ~Touched(last[1].path)

(***************************************************************************)
(* C6.  Once main has validated the directory, the run ends having taken   *)
(* up every entry and printed the final count, whatever reads, decodes and *)
(* writes fail on the way.                                                 *)
(***************************************************************************)
RunCompleted ==
    /\ pc = "done"
    /\ visited = [p \in Paths |-> p]
    /\ out # << >> /\ out[Len(out)] = <<"Completed", modified_count>>

C6_ValidatedRunCompletes == (pc \in {"loop", "read"}) ~> RunCompleted

\* a run has completed in which every file failed and nothing was modified
C6_Witness ==
    /\ RunCompleted /\ Len(tree) = 2 /\ modified_count = 0
    /\ Len(LinesOf("ErrorProcessing")) + Len(LinesOf("ErrorParsing")) = 2

(***************************************************************************)
(* C7.  The output of a successful invocation: the start message first;    *)
(* a `Modified` line for a file only after its write and its increment of  *)
(* the count; no file named by two `Modified` lines; the summary last and  *)
(* only at the end, with a count equal to the number of `Modified` lines.  *)
(***************************************************************************)
C7_OutputOrder ==
    /\ pc \in {"loop", "read", "written", "counted", "returned", "done"}
          => (out # << >> /\ out[1] = <<"Processing">>)
    /\ \A k \in 2..Len(out) : out[k][1] # "Processing"
    /\ \A p \in ModifiedPaths : disk[p] # RunStart(p)
    /\ Len(LinesOf("Modified")) = IF pc = "counted" THEN modified_count - 1
                                                   ELSE modified_count
    /\ Cardinality(ModifiedPaths) = Len(LinesOf("Modified"))
    /\ pc \in {"written", "counted"} => i \notin ModifiedPaths
    /\ \A k \in 1..Len(out) :
          out[k][1] = "Completed" =>
              /\ pc = "done" /\ k = Len(out)
              /\ out[k][2] = Len(LinesOf("Modified"))
    /\ pc = "done" => LinesOf("Completed") # << >>

\* a run over two files has ended with both modified and reported
C7_Witness ==
    /\ pc = "done" /\ Len(LinesOf("Modified")) = 2
    /\ out[Len(out)] = <<"Completed", 2>>

(***************************************************************************)
(* C8.  Only regular files whose suffix is exactly .md, .html or .markdown *)
(* are read or written: any other entry is never opened, holds what it     *)
(* held, and the run creates and deletes nothing.                          *)
(***************************************************************************)
C8_OtherEntriesUntouched ==
    /\ DOMAIN disk = DOMAIN tree
    /\ \A p \in Paths :
          ~(tree[p].is_file /\ tree[p].suffix \in {".md", ".html", ".markdown"}) =>
              /\ disk[p] = tree[p].bytes
              /\ ~Mentions(p)
              /\ (last # None => last[1].path # p)

\* a run has ended that modified a file and passed over a file named .MD
\* whose front matter holds `tags`
C8_Witness ==
    /\ pc = "done" /\ modified_count = 1
    /\ \E p \in Paths :
          /\ tree[p].suffix = ".MD"
          /\ disk[p] = tree[p].bytes
          /\ RemovableAtStart(p)

(***************************************************************************)
(* C9.  extract_frontmatter reports a block only when the content opens    *)
(* with a line that is exactly --- or +++ and a later line is exactly that *)
(* token; the block is the text between the opening line and the first     *)
(* such line, the body the content after that whole line.  A line that     *)
(* only begins with the token closes nothing.                              *)
(***************************************************************************)
\* the lines after the opening one that are exactly the opening line
ClosingLines(lines) == {k \in 2..Len(lines) : lines[k] = lines[1]}

\* the text from line `from` on, with the line break before it
AfterLine(lines, from) ==
    IF from > Len(lines) THEN << >>
    ELSE LF \o JoinLines(SubSeq(lines, from, Len(lines)), LF)

BlockByLines(fm, lines, closing) ==
    /\ lines[1] \in {DASHES, PLUSES}
    /\ closing # {}
    /\ fm.delimiter = Some(lines[1])
    /\ fm.front_matter = Some(JoinLines(SubSeq(lines, 2, SetMin(closing) - 1), LF))
    /\ fm.rest_content = AfterLine(lines, SetMin(closing) + 1)

C9_BlockEndsAtExactTokenLine ==
    (last # None /\ last[1].fm.front_matter # None) =>
        BlockByLines(last[1].fm, SplitLines(last[1].content),
                     ClosingLines(SplitLines(last[1].content)))

\* the content `---`, `t: a`, `----`, `Body` has been read: the block found is
\* `t: a` and the body begins with the fourth dash
C9_Witness ==
    /\ last # None
    /\ last[1].content = JoinLines(<<L_open, L_title, L_dash4, L_body>>, LF)
    /\ last[1].fm.front_matter = Some(L_title)
    /\ last[1].fm.rest_content = <<"-">> \o LF \o L_body

(***************************************************************************)
(* C10.  extract_frontmatter never returns the format `toml`: whenever the *)
(* TOML pattern matches, the YAML pattern matches too, with the same block *)
(* and end, and the result is delimiter +++ with format `yaml`.            *)
(***************************************************************************)
SameMatch(fm, content, yaml_match, toml_match) ==
    toml_match # None =>
        /\ yaml_match = toml_match
        /\ fm.fm_type = "yaml"
        /\ fm.delimiter = Some(PLUSES)
        /\ fm.front_matter = Some(toml_match[1].front_matter)
        /\ fm.rest_content = Drop(content, toml_match[1].end + 1)

C10_NeverToml ==
    last # None =>
        /\ last[1].fm.fm_type # "toml"
        /\ SameMatch(last[1].fm, last[1].content,
                     yaml_pattern(last[1].content), toml_pattern(last[1].content))

\* a file opened and closed by +++ has been rewritten
C10_Witness ==
    /\ pc = "written"
    /\ toml_pattern(last[1].content) # None

====
